---- MODULE Spec2Model ----
(***************************************************************************)
(* LookOutCV: the schema-evolving parquet prediction log of BaseLogger     *)
(* (src/logger/logger.py), its DetectionLogger subclass, the              *)
(* ImageMetricsCalculator (src/metrics/metrics.py) and the outlier         *)
(* detection of DataInsightsCalculator (src/metrics/data_insights.py).     *)
(*                                                                         *)
(* One store file is modelled (every logger of one model in one process    *)
(* derives the same path from model name and pid).  Python values are      *)
(* records [t |-> type, v |-> literal]; an exception is an outcome string. *)
(***************************************************************************)
EXTENDS Integers, Sequences, FiniteSets, TLC

VARIABLES disk, loggers, last, insights, threads

vars == <<disk, loggers, last, insights, threads>>

(***************************************************************************)
(* Bounds of the model.                                                    *)
(***************************************************************************)
MaxRows == 2
MaxLoggers == 2
\* the most rows of a data frame given to the DataInsightsCalculator
MaxDataRows == 4

(***************************************************************************)
(* Python values.                                                          *)
(***************************************************************************)
None == [t |-> "NoneType", v |-> "None"]

PyInt(s) == [t |-> "int", v |-> s]
PyFloat(s) == [t |-> "float", v |-> s]
PyStr(s) == [t |-> "str", v |-> s]
Float32(s) == [t |-> "float32", v |-> s]

Raised(e) == [raised |-> e, value |-> None]
Returned(x) == [raised |-> "", value |-> x]

RECURSIVE SeqToSet(_)
SeqToSet(s) == IF s = <<>> THEN {} ELSE {Head(s)} \cup SeqToSet(Tail(s))

\* all orders in which a for loop over a Python set can visit its members
SetOrders(S) ==
    {s \in [1..Cardinality(S) -> S] : \A i, j \in 1..Cardinality(S) : s[i] = s[j] => i = j}

\* dict.get(key, None)
DictGet(d, k) == IF k \in DOMAIN d THEN d[k] ELSE None

\* d[key] = value
DictSet(d, k, x) == [n \in DOMAIN d \cup {k} |-> IF n = k THEN x ELSE d[n]]

\* d.update(other)
DictUpdate(d, other) ==
    [n \in DOMAIN d \cup DOMAIN other |-> IF n \in DOMAIN other THEN other[n] ELSE d[n]]

EmptyDict == [n \in {} |-> None]

(***************************************************************************)
(* CVMetrics and DetectionLogger._MANDATORY_FIELDS.                        *)
(***************************************************************************)
CVMetrics == {"contrast", "blur", "orientation", "bbox_ratio"}

requires_image(m) == m \in {"contrast", "blur", "orientation"}

_MANDATORY_FIELDS ==
    <<"image_name", "pred_class", "confidence", "bbox_x1", "bbox_y1", "bbox_x2", "bbox_y2">>

MandatoryNames == SeqToSet(_MANDATORY_FIELDS)

\* the enabled_metrics lists a caller passes to the constructor: none (the default),
\* the two metrics the calculator computes, and the two metrics it has no method
\* for, one of them named twice
EnabledLists ==
    {<<>>, <<"contrast", "blur">>, <<"bbox_ratio", "orientation", "orientation">>}

(***************************************************************************)
(* pyarrow tables: a schema (names, types) and one array per column.       *)
(***************************************************************************)
Table(names, types, columns) == [names |-> names, types |-> types, columns |-> columns]

NoTable == Table(<<>>, <<>>, <<>>)

num_columns(t) == Len(t.names)

num_rows(t) == IF t.columns = <<>> THEN 0 ELSE Len(t.columns[1])

(***************************************************************************)
(* The store file.  pq.write_table opens the path for writing, which       *)
(* truncates it, and then writes the row groups and the footer: a write    *)
(* that stops after the open leaves a file that is no parquet file.        *)
(***************************************************************************)
Absent == [state |-> "absent", table |-> NoTable]
Complete(t) == [state |-> "complete", table |-> t]
Truncated == [state |-> "truncated", table |-> NoTable]

\* os.path.exists(self.parquet_file)
path_exists(d) == d.state # "absent"

\* pq.read_table(self.parquet_file)
read_table(d) ==
    IF d.state = "complete" THEN Returned(d.table) ELSE Raised("ArrowInvalid")

\* pq.write_table(table, self.parquet_file), run to completion
write_table(t) == Complete(t)

(***************************************************************************)
(* BaseLogger._create_schema                                               *)
(***************************************************************************)
IsSubstring(sub, name) ==
    CASE sub = "name" -> name \in {"image_name"}
      [] sub = "class" -> name \in {"pred_class"}
      [] OTHER -> FALSE

\* every mandatory field declared float32
MandatoryDtypeAllFloat(field_name) == "float32"

MandatoryDtype(field_name) ==
    IF IsSubstring("name", field_name) \/ IsSubstring("class", field_name)
    THEN "string"
    ELSE "float32"

\* a schema whose metric fields come first, in reverse order of the list
_create_schema_metrics_first(enabled_metrics) ==
    [names |-> [i \in 1..Len(enabled_metrics) |->
                   enabled_metrics[Len(enabled_metrics) + 1 - i]]
               \o _MANDATORY_FIELDS,
     types |-> [i \in 1..Len(enabled_metrics) |-> "float32"]
               \o [i \in 1..Len(_MANDATORY_FIELDS) |-> MandatoryDtype(_MANDATORY_FIELDS[i])]]

_create_schema(enabled_metrics) ==
    [names |-> _MANDATORY_FIELDS \o enabled_metrics,
     types |-> [i \in 1..Len(_MANDATORY_FIELDS) |-> MandatoryDtype(_MANDATORY_FIELDS[i])]
               \o [i \in 1..Len(enabled_metrics) |-> "float32"]]

\* pa.Table.from_arrays([pa.array([], type=field.type) for field in schema], schema=schema)
EmptyTable(schema) ==
    Table(schema.names, schema.types, [i \in 1..Len(schema.names) |-> <<>>])

(***************************************************************************)
(* BaseLogger._evolve_schema                                               *)
(***************************************************************************)
\* a backfill with zeros in place of nulls
append_column_zeros(t, col, n) ==
    Table(Append(t.names, col), Append(t.types, "float32"),
          Append(t.columns, [r \in 1..n |-> Float32("0.0")]))

\* the new column placed before the existing ones
prepend_column(t, col, n) ==
    Table(<<col>> \o t.names, <<"float32">> \o t.types,
          <<[r \in 1..n |-> None]>> \o t.columns)

\* existing_table.append_column(col, pa.array([None] * num_rows, type=pa.float32()))
append_column(t, col, n) ==
    Table(Append(t.names, col), Append(t.types, "float32"),
          Append(t.columns, [r \in 1..n |-> None]))

RECURSIVE AppendMissing(_, _, _)
AppendMissing(t, order, n) ==
    IF order = <<>> THEN t
    ELSE AppendMissing(append_column(t, Head(order), n), Tail(order), n)

missing_cols(existing_table, enabled_metrics) ==
    SeqToSet(_create_schema(enabled_metrics).names) \ SeqToSet(existing_table.names)

\* a reconcile that rewrites the file with the desired schema alone
EvolveToDesired(existing_table, enabled_metrics) ==
    LET schema == _create_schema(enabled_metrics)
        n == num_rows(existing_table)
        At(name) == CHOOSE j \in 1..Len(existing_table.names) : existing_table.names[j] = name
    IN  {Table(schema.names, schema.types,
               [i \in 1..Len(schema.names) |->
                   IF schema.names[i] \in SeqToSet(existing_table.names)
                   THEN existing_table.columns[At(schema.names[i])]
                   ELSE [r \in 1..n |-> None]])}

\* a reconcile that adds no column
_evolve_schema_keep(existing_table, enabled_metrics) == {existing_table}

\* the tables _evolve_schema can write: one per iteration order of the set missing_cols
_evolve_schema(existing_table, enabled_metrics) ==
    {AppendMissing(existing_table, order, num_rows(existing_table)) :
        order \in SetOrders(missing_cols(existing_table, enabled_metrics))}

(***************************************************************************)
(* ImageMetricsCalculator (src/metrics/metrics.py).  An array is           *)
(* [t |-> "ndarray", v |-> shape]; the numeric formulas are leaf functions *)
(* and every computed contrast (blur) is one representative float.         *)
(***************************************************************************)
NdArray(shape) == [t |-> "ndarray", v |-> shape]
PilImage(shape) == [t |-> "Image", v |-> shape]

ndim(a) == IF a.v = "hxw" THEN 2 ELSE 3

channels(a) == CASE a.v = "hxwx3" -> 3 [] a.v = "hxwx1" -> 1 [] OTHER -> 0

\* PIL.Image.open(path): only batMan.jpg exists and decodes (an RGB image)
ImageOpen(path) ==
    IF path = "batMan.jpg" THEN Returned(PilImage("hxwx3")) ELSE Raised("FileNotFoundError")

\* ImageMetricsCalculator.__init__ / _set_image: the calculator's self.image
_set_image(image) ==
    CASE image.t = "Image" -> Returned(NdArray(image.v))
      [] image.t = "ndarray" ->
            IF ndim(image) = 2 THEN Returned(NdArray("hxwx1")) ELSE Returned(image)
      [] image.t = "str" ->
            LET opened == ImageOpen(image.v)
            IN  IF opened.raised # "" THEN opened ELSE Returned(NdArray(opened.value.v))
      [] OTHER -> Returned(None)

ImageMetricsCalculator(image) == _set_image(image)

calculate_contrast(self_image) ==
    IF self_image = None THEN Raised("TypeError") ELSE Returned(PyFloat("52.3"))

calculate_blur(self_image) ==
    IF self_image = None THEN Raised("AttributeError")
    ELSE IF ndim(self_image) = 3 /\ channels(self_image) # 3 THEN Raised("cv2.error")
    ELSE Returned(PyFloat("120.5"))

calculate_orientation_type(self_image) ==
    IF self_image = None THEN Raised("AttributeError") ELSE Returned(PyFloat("1.0"))

calculate_brightness(self_image) ==
    IF self_image = None THEN Raised("TypeError") ELSE Returned(PyFloat("97.0"))

CalculatorMethods ==
    {"calculate_contrast", "calculate_blur", "calculate_orientation_type",
     "calculate_brightness"}

\* f"calculate_{metric_name}"
method_name(metric_name) ==
    CASE metric_name = "contrast" -> "calculate_contrast"
      [] metric_name = "blur" -> "calculate_blur"
      [] metric_name = "orientation" -> "calculate_orientation"
      [] metric_name = "bbox_ratio" -> "calculate_bbox_ratio"

hasattr(name) == name \in CalculatorMethods

\* getattr(calc, method_name)()
getattr_call(self_image, name) ==
    CASE name = "calculate_contrast" -> calculate_contrast(self_image)
      [] name = "calculate_blur" -> calculate_blur(self_image)
      [] name = "calculate_orientation_type" -> calculate_orientation_type(self_image)
      [] name = "calculate_brightness" -> calculate_brightness(self_image)

(***************************************************************************)
(* BaseLogger.calculate_image_metrics.  The result is the returned dict    *)
(* (value) or the exception that left the call (raised), with the number   *)
(* of ImageMetricsCalculator objects the call constructed.                 *)
(***************************************************************************)
Metrics(raised, results, constructed) ==
    [called |-> TRUE, raised |-> raised, value |-> results, constructed |-> constructed]

\* for field in self.enabled_metrics: results[field.value] = None
RECURSIVE NullResults(_, _)
NullResults(enabled_metrics, results) ==
    IF enabled_metrics = <<>> THEN results
    ELSE NullResults(Tail(enabled_metrics), DictSet(results, Head(enabled_metrics), None))

\* lines 131-134: the outcome of the try block for one metric
MetricCall(self_image, metric_name) ==
    IF hasattr(method_name(metric_name))
    THEN getattr_call(self_image, method_name(metric_name))
    ELSE Returned(None)

\* lines 128-137: the loop over the enabled metrics
\* one try block around the whole loop: the first metric that raises nulls them all
MetricsLoopAbort(self_image, enabled_metrics, results) ==
    IF \E i \in 1..Len(enabled_metrics) : MetricCall(self_image, enabled_metrics[i]).raised # ""
    THEN NullResults(enabled_metrics, results)
    ELSE [m \in SeqToSet(enabled_metrics) |-> MetricCall(self_image, m).value]

RECURSIVE MetricsLoop(_, _, _)
MetricsLoop(self_image, enabled_metrics, results) ==
    IF enabled_metrics = <<>> THEN results
    ELSE LET metric_name == Head(enabled_metrics)
             r == MetricCall(self_image, metric_name)
         IN  MetricsLoop(self_image, Tail(enabled_metrics),
                 DictSet(results, metric_name, IF r.raised # "" THEN None ELSE r.value))

\* no fast path: a calculator is constructed for any image, None included
calculate_image_metrics_no_fast_path(enabled_metrics, image) ==
    LET calc == ImageMetricsCalculator(image)
    IN  IF calc.raised # ""
        THEN Metrics("", NullResults(enabled_metrics, EmptyDict), 1)
        ELSE Metrics("", [m \in SeqToSet(enabled_metrics) |->
                             LET r == MetricCall(calc.value, m)
                             IN  IF r.raised # "" THEN None ELSE r.value], 1)

\* no try around the construction: its exception leaves the call
calculate_image_metrics_ctor_raises(enabled_metrics, image) ==
    IF image = None \/ enabled_metrics = <<>>
    THEN Metrics("", NullResults(enabled_metrics, EmptyDict), 0)
    ELSE LET calc == ImageMetricsCalculator(image)
         IN  IF calc.raised # ""
             THEN Metrics(calc.raised, EmptyDict, 1)
             ELSE Metrics("", [m \in SeqToSet(enabled_metrics) |->
                                  LET r == MetricCall(calc.value, m)
                                  IN  IF r.raised # "" THEN None ELSE r.value], 1)

calculate_image_metrics(enabled_metrics, image) ==
    IF image = None \/ enabled_metrics = <<>>
    THEN Metrics("", NullResults(enabled_metrics, EmptyDict), 0)
    ELSE LET calc == ImageMetricsCalculator(image)
         IN  IF calc.raised # ""
             THEN Metrics("", NullResults(enabled_metrics, EmptyDict), 1)
             ELSE Metrics("", MetricsLoop(calc.value, enabled_metrics, EmptyDict), 1)

(***************************************************************************)
(* BaseLogger.save_to_parquet: per-column coercion and the rewrite.        *)
(***************************************************************************)
IsNumeral(v) == v \in {"0.95", "10", "20", "100", "120", "7"}

\* float(value)
py_float(value) ==
    CASE value.t = "float" -> Returned(value)
      [] value.t = "int" ->
            Returned(PyFloat(CASE value.v = "10" -> "10.0" [] value.v = "20" -> "20.0"
                               [] value.v = "100" -> "100.0" [] value.v = "120" -> "120.0"
                               [] value.v = "7" -> "7.0"))
      [] value.t = "str" ->
            IF IsNumeral(value.v) THEN Returned(PyFloat(value.v)) ELSE Raised("ValueError")
      [] OTHER -> Raised("TypeError")

\* str(value)
py_str(value) == Returned(PyStr(value.v))

\* pa.array([value], type=field_type)[0]: a Python float is rounded to 32 bits
pa_scalar(value, field_type) ==
    CASE value = None -> None
      [] field_type = "float32" ->
            Float32(CASE value.v = "0.95" -> "0.949999988" [] value.v = "52.3" -> "52.299999237"
                      [] OTHER -> value.v)
      [] field_type = "string" -> [t |-> "string", v |-> value.v]

\* lines 192-207: the cell stored for one column of the new row
Coerce(value, field_type) ==
    IF value = None THEN pa_scalar(None, field_type)
    ELSE LET converted ==
                 CASE field_type = "float32" -> py_float(value)
                   [] field_type = "string" -> py_str(value)
                   [] OTHER -> Returned(value)
         IN  pa_scalar(IF converted.raised # "" THEN None ELSE converted.value, field_type)

\* a new row built from the keys of data: no cell for a column data does not name
NewRowTableFromData(schema, data) ==
    Table(schema.names, schema.types,
          [i \in 1..Len(schema.names) |->
              IF schema.names[i] \in DOMAIN data
              THEN <<Coerce(data[schema.names[i]], schema.types[i])>>
              ELSE <<>>])

\* a new row that is all null as soon as one conversion fails
NewRowTableAllOrNothing(schema, data) ==
    LET fails(i) ==
            /\ DictGet(data, schema.names[i]) # None
            /\ Coerce(DictGet(data, schema.names[i]), schema.types[i]) = None
        failed == \E i \in 1..Len(schema.names) : fails(i)
    IN  Table(schema.names, schema.types,
              [i \in 1..Len(schema.names) |->
                  IF failed THEN <<None>>
                  ELSE <<Coerce(DictGet(data, schema.names[i]), schema.types[i])>>])

\* row = [data.get(name, None) for name in schema.names], then one array per column
NewRowTable(schema, data) ==
    Table(schema.names, schema.types,
          [i \in 1..Len(schema.names) |->
              <<Coerce(DictGet(data, schema.names[i]), schema.types[i])>>])

\* a rewrite with the new row alone
concat_new_only(existing_table, new_table) == new_table

\* pa.concat_tables([existing_table, new_table])
concat_tables(existing_table, new_table) ==
    Table(existing_table.names, existing_table.types,
          [i \in 1..Len(existing_table.names) |->
              existing_table.columns[i] \o new_table.columns[i]])

\* a rewrite that keeps none of the rows read
save_to_parquet_overwrite(existing_table, data) == NewRowTable(existing_table, data)

\* what save_to_parquet writes when the read succeeds
save_to_parquet(existing_table, data) ==
    concat_tables(existing_table, NewRowTable(existing_table, data))

(***************************************************************************)
(* BaseLogger.log_prediction, lines 151-157: the mandatory fields.         *)
(***************************************************************************)
\* data[field] = kwargs.get(field) for every mandatory field, with no check
MandatoryDataLenient(fields, kwargs, data) ==
    Returned([f \in SeqToSet(fields) |-> DictGet(kwargs, f)])

RECURSIVE MandatoryData(_, _, _)
MandatoryData(fields, kwargs, data) ==
    IF fields = <<>> THEN Returned(data)
    ELSE IF Head(fields) \in DOMAIN kwargs
         THEN MandatoryData(Tail(fields), kwargs, DictSet(data, Head(fields), kwargs[Head(fields)]))
         ELSE Raised("ValueError")

(***************************************************************************)
(* DataInsightsCalculator.identify_outliers (src/metrics/data_insights.py).*)
(* A data frame is [index, names, dtypes, columns]; a numeric cell is      *)
(* [nan |-> FALSE, x |-> integer] or NaN.  A quantile is a number of       *)
(* quarters [nan, x4] and iqr_multiplier a number of halves, so that the   *)
(* bounds are compared in eighths, exactly.                                *)
(***************************************************************************)
Num(x) == [nan |-> FALSE, x |-> x]
NaN == [nan |-> TRUE, x |-> 0]

Frame(index, names, dtypes, columns) ==
    [index |-> index, names |-> names, dtypes |-> dtypes, columns |-> columns]

\* self.data.select_dtypes(include=[np.number]): the positions of the numeric columns
numeric_columns(data) ==
    {c \in 1..Len(data.names) : data.dtypes[c] \in {"int64", "float64"}}

\* the values of a column that are not NaN
NotNull(column) == {r \in 1..Len(column) : ~column[r].nan}

\* the value at position k (from 0) of the sorted non-null values of a column
OrderStat(column, k) ==
    CHOOSE v \in {column[r].x : r \in NotNull(column)} :
        /\ Cardinality({r \in NotNull(column) : column[r].x < v}) <= k
        /\ k < Cardinality({r \in NotNull(column) : column[r].x <= v})

\* Series.quantile(quarters / 4): linear interpolation between the two nearest
\* order statistics of the non-null values, NaN when there is none
quantile(column, quarters) ==
    LET n == Cardinality(NotNull(column))
        pos4 == (n - 1) * quarters
        i == pos4 \div 4
        j == IF i + 1 > n - 1 THEN i ELSE i + 1
    IN  IF n = 0 THEN [nan |-> TRUE, x4 |-> 0]
        ELSE [nan |-> FALSE,
              x4 |-> 4 * OrderStat(column, i)
                     + (pos4 % 4) * (OrderStat(column, j) - OrderStat(column, i))]

\* lower_bound and upper_bound of a column, in eighths
lower_bound(column, iqr_multiplier) ==
    LET Q1 == quantile(column, 1)
        Q3 == quantile(column, 3)
    IN  [nan |-> Q1.nan, x8 |-> 2 * Q1.x4 - iqr_multiplier * (Q3.x4 - Q1.x4)]

upper_bound(column, iqr_multiplier) ==
    LET Q1 == quantile(column, 1)
        Q3 == quantile(column, 3)
    IN  [nan |-> Q3.nan, x8 |-> 2 * Q3.x4 + iqr_multiplier * (Q3.x4 - Q1.x4)]

\* a comparison that also holds at the bound
column_outliers_inclusive(column, iqr_multiplier) ==
    [r \in 1..Len(column) |->
        /\ ~column[r].nan
        /\ ~lower_bound(column, iqr_multiplier).nan
        /\ \/ 8 * column[r].x <= lower_bound(column, iqr_multiplier).x8
           \/ 8 * column[r].x >= upper_bound(column, iqr_multiplier).x8]

\* (numeric_data[column] < lower_bound) | (numeric_data[column] > upper_bound):
\* a comparison with NaN is False
column_outliers(column, iqr_multiplier) ==
    [r \in 1..Len(column) |->
        /\ ~column[r].nan
        /\ ~lower_bound(column, iqr_multiplier).nan
        /\ \/ 8 * column[r].x < lower_bound(column, iqr_multiplier).x8
           \/ 8 * column[r].x > upper_bound(column, iqr_multiplier).x8]

\* the loop over numeric_data.columns, from column c on
RECURSIVE outliers_mask(_, _, _, _)
outliers_mask(data, iqr_multiplier, c, mask) ==
    IF c > Len(data.names) THEN mask
    ELSE IF c \notin numeric_columns(data)
    THEN outliers_mask(data, iqr_multiplier, c + 1, mask)
    ELSE outliers_mask(data, iqr_multiplier, c + 1,
             [r \in 1..Len(mask) |->
                 mask[r] \/ column_outliers(data.columns[c], iqr_multiplier)[r]])

\* xs[mask]
RECURSIVE Select(_, _)
Select(xs, mask) ==
    IF xs = <<>> THEN <<>>
    ELSE (IF Head(mask) THEN <<Head(xs)>> ELSE <<>>) \o Select(Tail(xs), Tail(mask))

\* self.data[outliers_mask]
identify_outliers(data, iqr_multiplier) ==
    LET mask == outliers_mask(data, iqr_multiplier, 1, [r \in 1..Len(data.index) |-> FALSE])
    IN  Frame(Select(data.index, mask), data.names, data.dtypes,
              [c \in 1..Len(data.names) |-> Select(data.columns[c], mask)])

\* the default value of iqr_multiplier, 1.5, in halves
DefaultIqrMultiplier == 3

\* the data frames analysed: feature1 any column of the values below, feature2
\* the tens 10, 20, ... with or without a first value far below, category strings
Feature1Values == {Num(1), Num(2), Num(3), Num(100), NaN}

Feature2(n, low) == [r \in 1..n |-> IF low /\ r = 1 THEN Num(0 - 1000) ELSE Num(10 * r)]

Category(n) == [r \in 1..n |-> IF r % 2 = 1 THEN "A" ELSE "B"]

DataFrames ==
    {Frame([r \in 1..n |-> r - 1], <<"feature1", "feature2", "category">>,
           <<"float64", "int64", "object">>, <<feature1, Feature2(n, low), Category(n)>>) :
        <<n, feature1, low>> \in
            UNION {{<<m, f, b>> : f \in [1..m -> Feature1Values], b \in BOOLEAN} :
                      m \in 0..MaxDataRows}}

\* the multipliers passed: 1.0, the default and 3.0
IqrMultipliers == {2, DefaultIqrMultiplier, 6}

\* no DataInsightsCalculator
NoInsights == [data |-> Frame(<<>>, <<>>, <<>>, <<>>), iqr_multiplier |-> 0, called |-> FALSE,
               outliers |-> Frame(<<>>, <<>>, <<>>, <<>>)]

(***************************************************************************)
(* The calls a client makes.                                               *)
(***************************************************************************)
ValidKwargs ==
    [image_name |-> PyStr("test_image.jpg"), pred_class |-> PyStr("cat"),
     confidence |-> PyFloat("0.95"),
     bbox_x1 |-> PyInt("10"), bbox_y1 |-> PyInt("20"),
     bbox_x2 |-> PyInt("100"), bbox_y2 |-> PyInt("120")]

\* a value of the wrong kind for the column of field f
WrongValue(f) == IF MandatoryDtype(f) = "string" THEN PyInt("7") ELSE PyStr("abc")

\* the image arguments: none, a two-dimensional array, the path of an RGB image,
\* a path that cannot be opened, a value that is no image
ImageArgs ==
    {None, NdArray("hxw"), PyStr("batMan.jpg"), PyStr("missing.jpg"), PyInt("5")}

\* a call with the mandatory field f omitted ("omit"), None ("none") or of the wrong
\* kind ("wrong"), the other fields valid
Kwargs(f, defect, image) ==
    LET keys == (IF defect = "omit" THEN MandatoryNames \ {f} ELSE MandatoryNames)
                \cup {"image"}
    IN  [k \in keys |->
            IF k = "image" THEN image
            ELSE IF k # f THEN ValidKwargs[k]
            ELSE IF defect = "none" THEN None ELSE WrongValue(f)]

\* the calls made: all fields valid with every kind of image, any one field omitted,
\* and None or a value of the wrong kind for a mandatory field
CallKwargs ==
    {Kwargs("", "none", img) : img \in ImageArgs}
    \cup {Kwargs(f, "omit", PyStr("batMan.jpg")) : f \in MandatoryNames}
    \cup {Kwargs("confidence", "none", None), Kwargs("confidence", "wrong", None)}

(***************************************************************************)
(* State: the store file, the loggers constructed so far (in order of      *)
(* construction, each its enabled_metrics), and the last call: whether it  *)
(* left out a mandatory field, its outcome ("ok" or the exception raised), *)
(* its return value, the image it passed to calculate_image_metrics and    *)
(* the result of that call (if made), the data it passed to                *)
(* save_to_parquet (if called), and its reads and writes of the file.      *)
(***************************************************************************)
Last(op, logger, omits, image, outcome, metrics, reads, writes) ==
    [op |-> op, logger |-> logger, omits |-> omits, image |-> image,
     outcome |-> outcome, ret |-> None, metrics |-> metrics, data |-> EmptyDict,
     reads |-> reads, writes |-> writes]

\* calculate_image_metrics was not called
NoMetrics == [Metrics("", EmptyDict, 0) EXCEPT !.called = FALSE]

\* The threads of the process that call log_prediction.  A thread inside
\* save_to_parquet between its read (line 178) and its write (line 211) holds the
\* locals of the call: the logger, the image, the metrics, the data and the table
\* it read.  completed counts the appends that returned, started those that read
\* the file; overlapped records that an append read the file while another was
\* between its read and its write.
Threads == {"t1", "t2"}

Idle ==
    [busy |-> FALSE, logger |-> 0, image |-> None, metrics |-> NoMetrics,
     data |-> EmptyDict, existing_table |-> NoTable]

NoThreads == [pending |-> [t \in Threads |-> Idle], started |-> 0, completed |-> 0,
              overlapped |-> FALSE]

Init ==
    /\ disk = Absent
    /\ loggers = <<>>
    /\ last = Last("none", 0, FALSE, None, "", NoMetrics, 0, 0)
    /\ insights = NoInsights
    /\ threads = NoThreads

\* the file after pq.write_table(t, path) on the file d: the table when the write
\* completes; when it fails, the file as it was (the open failed) or a truncated file
Written(d, t, fault) == IF fault THEN {d, Truncated} ELSE {write_table(t)}

WriteOutcome(fault) == IF fault THEN "OSError" ELSE "ok"

\* BaseLogger.__init__, lines 58-64: no file at the path
Create(l, enabled_metrics, fault) ==
    /\ ~path_exists(disk)
    /\ disk' \in Written(disk, EmptyTable(_create_schema(enabled_metrics)), fault)
    /\ loggers' = IF fault THEN loggers ELSE Append(loggers, enabled_metrics)
    /\ last' = Last("create", l, FALSE, None, WriteOutcome(fault), NoMetrics, 0, 1)
    /\ UNCHANGED <<insights, threads>>

\* BaseLogger.__init__, lines 65-66, and _evolve_schema
Evolve(l, enabled_metrics, fault) ==
    /\ path_exists(disk)
    /\ UNCHANGED <<insights, threads>>
    /\ LET existing == read_table(disk)
       IN  IF existing.raised # ""
           THEN /\ ~fault
                /\ UNCHANGED <<disk, loggers>>
                /\ last' = Last("evolve", l, FALSE, None, existing.raised, NoMetrics, 1, 0)
           ELSE IF missing_cols(existing.value, enabled_metrics) # {}
           THEN /\ \E t \in _evolve_schema(existing.value, enabled_metrics) :
                      disk' \in Written(disk, t, fault)
                /\ loggers' = IF fault THEN loggers ELSE Append(loggers, enabled_metrics)
                /\ last' = Last("evolve", l, FALSE, None, WriteOutcome(fault), NoMetrics, 1, 1)
           ELSE /\ ~fault
                /\ disk' = disk
                /\ loggers' = Append(loggers, enabled_metrics)
                /\ last' = Last("evolve", l, FALSE, None, "ok", NoMetrics, 1, 0)

\* BaseLogger.log_prediction and save_to_parquet
log_prediction(l, kwargs, fault) ==
    LET data == MandatoryData(_MANDATORY_FIELDS, kwargs, EmptyDict)
        omits == ~(MandatoryNames \subseteq DOMAIN kwargs)
        image == DictGet(kwargs, "image")
    IN  IF data.raised # ""
        THEN /\ ~fault
             /\ UNCHANGED <<disk, loggers, insights, threads>>
             /\ last' = Last("log_prediction", l, omits, None, data.raised, NoMetrics, 0, 0)
        ELSE LET computed_metrics == calculate_image_metrics(loggers[l], image)
                 row == DictUpdate(data.value, computed_metrics.value)
                 existing == read_table(disk)
             IN  IF computed_metrics.raised # ""
                 THEN /\ ~fault
                      /\ UNCHANGED <<disk, loggers, insights, threads>>
                      /\ last' = Last("log_prediction", l, omits, image,
                                      computed_metrics.raised, computed_metrics, 0, 0)
                 ELSE IF existing.raised # ""
                 THEN /\ ~fault
                      /\ UNCHANGED <<disk, loggers, insights, threads>>
                      /\ last' = [Last("log_prediction", l, omits, image, "IOError",
                                       computed_metrics, 1, 0) EXCEPT !.data = row]
                 ELSE /\ num_rows(existing.value) < MaxRows
                      /\ disk' \in Written(disk, save_to_parquet(existing.value, row), fault)
                      /\ UNCHANGED <<loggers, insights, threads>>
                      /\ last' = [Last("log_prediction", l, omits, image,
                                       WriteOutcome(fault), computed_metrics, 1, 1)
                                    EXCEPT !.data = row]

Construct ==
    /\ Len(loggers) < MaxLoggers
    /\ \E enabled_metrics \in EnabledLists :
          \/ Create(Len(loggers) + 1, enabled_metrics, FALSE)
          \/ Evolve(Len(loggers) + 1, enabled_metrics, FALSE)

LogPrediction ==
    \E l \in DOMAIN loggers, kwargs \in CallKwargs : log_prediction(l, kwargs, FALSE)

\* the same calls when the write of the file fails (disk full, permission)
ConstructWriteFails ==
    /\ Len(loggers) < MaxLoggers
    /\ \E enabled_metrics \in EnabledLists :
          \/ Create(Len(loggers) + 1, enabled_metrics, TRUE)
          \/ Evolve(Len(loggers) + 1, enabled_metrics, TRUE)

LogPredictionWriteFails ==
    \E l \in DOMAIN loggers, kwargs \in CallKwargs : log_prediction(l, kwargs, TRUE)

Next == Construct \/ LogPrediction

Spec == Init /\ [][Next]_vars

NextFault == Next \/ ConstructWriteFails \/ LogPredictionWriteFails

SpecFault == Init /\ [][NextFault]_vars

\* log_prediction by thread t, up to the read of the file in save_to_parquet
\* (lines 151-182)
BeginAppend(t, l, kwargs) ==
    LET data == MandatoryData(_MANDATORY_FIELDS, kwargs, EmptyDict)
        omits == ~(MandatoryNames \subseteq DOMAIN kwargs)
        image == DictGet(kwargs, "image")
    IN  /\ ~threads.pending[t].busy
        /\ UNCHANGED <<disk, loggers, insights>>
        /\ IF data.raised # ""
           THEN /\ last' = Last("log_prediction", l, omits, None, data.raised, NoMetrics, 0, 0)
                /\ UNCHANGED threads
           ELSE LET computed_metrics == calculate_image_metrics(loggers[l], image)
                    existing == read_table(disk)
                IN  /\ computed_metrics.raised = "" /\ existing.raised = ""
                    /\ threads.started < MaxRows
                    /\ threads' =
                          [threads EXCEPT
                              !.pending[t] =
                                  [busy |-> TRUE, logger |-> l, image |-> image,
                                   metrics |-> computed_metrics,
                                   data |-> DictUpdate(data.value, computed_metrics.value),
                                   existing_table |-> existing.value],
                              !.started = @ + 1,
                              !.overlapped =
                                  @ \/ \E u \in Threads \ {t} : threads.pending[u].busy]
                    /\ UNCHANGED last

\* the rest of save_to_parquet by thread t (lines 185-211), and the return
FinishAppend(t) ==
    LET self == threads.pending[t]
    IN  /\ self.busy
        /\ disk' = write_table(save_to_parquet(self.existing_table, self.data))
        /\ last' = [Last("log_prediction", self.logger, FALSE, self.image, "ok",
                         self.metrics, 1, 1) EXCEPT !.data = self.data]
        /\ threads' = [threads EXCEPT !.pending[t] = Idle, !.completed = @ + 1]
        /\ UNCHANGED <<loggers, insights>>

\* the calls the threads make: all fields valid, without image and with the path
\* of an image, and one call that omits a field
ThreadKwargs ==
    {Kwargs("", "none", None), Kwargs("", "none", PyStr("batMan.jpg")),
     Kwargs("pred_class", "omit", PyStr("batMan.jpg"))}

Read ==
    \E t \in Threads, l \in DOMAIN loggers, kwargs \in ThreadKwargs : BeginAppend(t, l, kwargs)

Write == \E t \in Threads : FinishAppend(t)

\* constructions and appends by threads that nothing serializes
NextThreads == Construct \/ Read \/ Write

SpecThreads == Init /\ [][NextThreads]_vars

\* a DataInsightsCalculator on some data frame, and one identify_outliers call
InitInsights ==
    /\ disk = Absent
    /\ loggers = <<>>
    /\ threads = NoThreads
    /\ last = Last("none", 0, FALSE, None, "", NoMetrics, 0, 0)
    /\ \E data \in DataFrames, iqr_multiplier \in IqrMultipliers :
          insights = [NoInsights EXCEPT !.data = data, !.iqr_multiplier = iqr_multiplier]

IdentifyOutliers ==
    /\ ~insights.called
    /\ insights' = [insights EXCEPT
                       !.called = TRUE,
                       !.outliers = identify_outliers(insights.data, insights.iqr_multiplier)]
    /\ UNCHANGED <<disk, loggers, last, threads>>

NextInsights == IdentifyOutliers

SpecInsights == InitInsights /\ [][NextInsights]_vars

(***************************************************************************)
(* Properties.                                                             *)
(***************************************************************************)
StoreTable == disk.table

ColumnSet(t) == SeqToSet(t.names)

TypesOf(t, n) == {t.types[i] : i \in {j \in 1..Len(t.names) : t.names[j] = n}}

EnabledOf(l) == SeqToSet(loggers[l])

LastLogged == last.op = "log_prediction" /\ last.outcome = "ok"

\* C1. Schema monotonicity: every construction (whatever its enabled metrics) and
\* every append leaves the store with a column set that includes the one before,
\* and every column that existed keeps its declared type.
SchemaMonotonic ==
    [][disk.state = "complete" =>
          /\ disk'.state = "complete"
          /\ ColumnSet(disk.table) \subseteq ColumnSet(disk'.table)
          /\ \A n \in ColumnSet(disk.table) :
                TypesOf(disk'.table, n) = TypesOf(disk.table, n)]_vars

\* a logger with no metrics was constructed on a store that has a row and a
\* metric column
SchemaMonotonicWitness ==
    /\ last.op = "evolve" /\ last.outcome = "ok"
    /\ loggers[last.logger] = <<>>
    /\ "contrast" \in ColumnSet(StoreTable)
    /\ num_rows(StoreTable) >= 1

\* C2. Backfill null: a construction that adds columns leaves the number of rows
\* unchanged, and every row has null in every column it added.
BackfillNull ==
    [][(last'.op = "evolve" /\ num_columns(disk'.table) > num_columns(disk.table)) =>
          /\ num_rows(disk'.table) = num_rows(disk.table)
          /\ \A c \in 1..num_columns(disk'.table) :
                disk'.table.names[c] \notin ColumnSet(disk.table) =>
                    /\ Len(disk'.table.columns[c]) = num_rows(disk.table)
                    /\ \A r \in 1..num_rows(disk.table) :
                          disk'.table.columns[c][r] = None]_vars

\* a construction added two columns to a store holding a row
BackfillNullWitness ==
    /\ last.op = "evolve" /\ last.writes = 1
    /\ num_rows(StoreTable) >= 1
    /\ {"contrast", "blur"} \subseteq ColumnSet(StoreTable)
    /\ loggers[1] = <<>>

\* C3. Row completeness: every stored row has an entry (a value or null) for every
\* column of the store: each column holds exactly one cell per row.
RowComplete ==
    disk.state = "complete" =>
        /\ Len(StoreTable.columns) = Len(StoreTable.names)
        /\ Len(StoreTable.types) = Len(StoreTable.names)
        /\ \A c \in 1..num_columns(StoreTable) :
              Len(StoreTable.columns[c]) = num_rows(StoreTable)

\* the first logger appended a row after a later logger had added a column for a
\* metric the first logger does not have enabled
RowCompleteWitness ==
    /\ LastLogged /\ last.logger = 1 /\ Len(loggers) = 2
    /\ "blur" \in ColumnSet(StoreTable) \ EnabledOf(1)

\* C4. Append-only store: no step removes, reorders or changes a stored cell; a
\* successful log_prediction adds exactly one row, placed last, and returns None;
\* a construction leaves the number of rows unchanged.
AppendOnly ==
    [][disk.state = "complete" =>
          /\ disk'.state = "complete"
          /\ num_rows(disk'.table) >= num_rows(disk.table)
          /\ \A c \in 1..num_columns(disk.table) :
                /\ disk'.table.names[c] = disk.table.names[c]
                /\ SubSeq(disk'.table.columns[c], 1, num_rows(disk.table))
                       = disk.table.columns[c]
          /\ (last'.op = "log_prediction" /\ last'.outcome = "ok") =>
                (num_rows(disk'.table) = num_rows(disk.table) + 1 /\ last'.ret = None)
          /\ last'.op = "evolve" => num_rows(disk'.table) = num_rows(disk.table)]_vars

\* a row was appended to a store that already held one
AppendOnlyWitness == LastLogged /\ num_rows(StoreTable) = 2

\* C5. Missing mandatory field: a log_prediction call that leaves out a mandatory
\* field raises ValueError without calling calculate_image_metrics and without
\* reading or writing the file, and the store is what it was.
MissingMandatoryRejected ==
    [][(last'.op = "log_prediction" /\ last'.omits) =>
          /\ last'.outcome = "ValueError"
          /\ ~last'.metrics.called
          /\ last'.reads = 0 /\ last'.writes = 0
          /\ disk' = disk]_vars

\* a call without one of the fields was rejected by a logger with metrics enabled,
\* on a store holding a row
MissingMandatoryRejectedWitness ==
    /\ last.op = "log_prediction" /\ last.omits /\ last.outcome = "ValueError"
    /\ loggers[last.logger] # <<>>
    /\ num_rows(StoreTable) >= 1

\* C6. Mandatory fields are never null: every stored row has a non-null value in
\* each of the seven mandatory columns.
MandatoryNeverNull ==
    disk.state = "complete" =>
        \A c \in 1..num_columns(StoreTable) :
            StoreTable.names[c] \in MandatoryNames =>
                \A r \in 1..Len(StoreTable.columns[c]) : StoreTable.columns[c][r] # None

\* C7. Rewrite atomicity: when the rewrite of an existing store by an append or by
\* a reconcile fails, the file still holds the table it held before the call.
RewriteAtomic ==
    [][(disk.state = "complete" /\ last'.outcome = "OSError") => disk' = disk]_vars

\* C8. Metric independence: in a calculate_image_metrics call in which the
\* computation of some enabled metric raises, the call does not raise, every enabled
\* metric whose method exists and returns resolves to the value it returned, and a
\* metric is null only if its method raised or the calculator has no method for it.
MetricIndependence ==
    (/\ last.op = "log_prediction" /\ last.metrics.called
     /\ last.image # None
     /\ ImageMetricsCalculator(last.image).raised = ""
     /\ \E m \in EnabledOf(last.logger) :
           MetricCall(ImageMetricsCalculator(last.image).value, m).raised # "")
    => /\ last.metrics.raised = ""
       /\ DOMAIN last.metrics.value = EnabledOf(last.logger)
       /\ \A m \in EnabledOf(last.logger) :
             LET r == MetricCall(ImageMetricsCalculator(last.image).value, m)
             IN  /\ (r.raised = "" /\ hasattr(method_name(m))) =>
                       (last.metrics.value[m] = r.value /\ last.metrics.value[m] # None)
                 /\ last.metrics.value[m] = None =>
                       (r.raised # "" \/ ~hasattr(method_name(m)))

\* with a two-dimensional array blur raised and contrast was computed
MetricIndependenceWitness ==
    /\ LastLogged /\ last.image = NdArray("hxw")
    /\ loggers[last.logger] = <<"contrast", "blur">>
    /\ last.metrics.value["blur"] = None
    /\ last.metrics.value["contrast"] = PyFloat("52.3")

\* C9. No-image fast path: when the image is None or no metric is enabled,
\* calculate_image_metrics returns one null entry per enabled metric, does not
\* raise and constructs no ImageMetricsCalculator.
NoImageFastPath ==
    (/\ last.op = "log_prediction" /\ last.metrics.called
     /\ (last.image = None \/ loggers[last.logger] = <<>>))
    => /\ last.metrics.raised = ""
       /\ DOMAIN last.metrics.value = EnabledOf(last.logger)
       /\ \A m \in EnabledOf(last.logger) : last.metrics.value[m] = None
       /\ last.metrics.constructed = 0

\* a logger with contrast and blur enabled logged a prediction without image
NoImageFastPathWitness ==
    /\ LastLogged /\ last.metrics.called /\ last.image = None
    /\ loggers[last.logger] = <<"contrast", "blur">>

\* C10. Image-context construction failure: when the construction of the
\* ImageMetricsCalculator raises, calculate_image_metrics does not raise, every
\* enabled metric is null, one calculator at most was constructed, and
\* log_prediction appends its row.
CtorFailureAllNull ==
    [][(/\ last'.op = "log_prediction" /\ last'.metrics.called
        /\ last'.image # None /\ loggers[last'.logger] # <<>>
        /\ ImageMetricsCalculator(last'.image).raised # "") =>
          /\ last'.metrics.raised = ""
          /\ DOMAIN last'.metrics.value = EnabledOf(last'.logger)
          /\ \A m \in EnabledOf(last'.logger) : last'.metrics.value[m] = None
          /\ last'.metrics.constructed <= 1
          /\ last'.outcome = "ok"
          /\ num_rows(disk'.table) = num_rows(disk.table) + 1]_vars

\* a logger with contrast and blur enabled logged a prediction whose image is a
\* path that cannot be opened
CtorFailureAllNullWitness ==
    /\ LastLogged /\ last.image = PyStr("missing.jpg")
    /\ loggers[last.logger] = <<"contrast", "blur">>
    /\ num_rows(StoreTable) >= 1

\* the conversion save_to_parquet applies to a value for a column of a type
Convert(value, field_type) ==
    IF field_type = "float32" THEN py_float(value) ELSE py_str(value)

\* the value supplied for column c of table t cannot be converted to its type
Uncoercible(t, c, data) ==
    /\ DictGet(data, t.names[c]) # None
    /\ Convert(DictGet(data, t.names[c]), t.types[c]).raised # ""

\* C11. Coercion failure is local: an append given a value that cannot be converted
\* to the type of its column is not aborted; it writes one more row, in which that
\* column is null and every other column holds the converted value of what was
\* supplied for it (null when nothing or None was supplied).
CoercionFailureLocal ==
    [][(/\ last'.op = "log_prediction" /\ last'.reads = 1
        /\ disk.state = "complete"
        /\ \E c \in 1..num_columns(disk.table) : Uncoercible(disk.table, c, last'.data)) =>
          /\ last'.outcome = "ok"
          /\ disk'.state = "complete"
          /\ num_rows(disk'.table) = num_rows(disk.table) + 1
          /\ \A c \in 1..num_columns(disk'.table) :
                LET value == DictGet(last'.data, disk'.table.names[c])
                    cell == disk'.table.columns[c][num_rows(disk'.table)]
                IN  IF Uncoercible(disk.table, c, last'.data) \/ value = None
                    THEN cell = None
                    ELSE /\ cell # None
                         /\ cell = pa_scalar(Convert(value, disk'.table.types[c]).value,
                                             disk'.table.types[c])]_vars

\* a row was appended whose confidence was supplied as the string 'abc': the
\* confidence is null and the other mandatory columns have their values
CoercionFailureLocalWitness ==
    /\ LastLogged
    /\ DictGet(last.data, "confidence") = PyStr("abc")
    /\ \A c \in 1..num_columns(StoreTable) :
          StoreTable.names[c] \in MandatoryNames =>
              (StoreTable.columns[c][num_rows(StoreTable)] = None
                  <=> StoreTable.names[c] = "confidence")
    /\ StoreTable.columns[5][num_rows(StoreTable)] = Float32("20.0")

\* C12. Create path: a logger constructed when no file exists writes a table with
\* zero rows whose columns are the seven mandatory fields in their fixed order
\* (image_name and pred_class strings, the others float32) followed by one float32
\* column per entry of the enabled-metrics list, in the order of the list.
CreateWritesDesiredSchema ==
    [][(disk.state = "absent" /\ Len(loggers') > Len(loggers)) =>
          LET enabled == loggers'[Len(loggers')]
          IN  /\ last'.op = "create" /\ last'.writes = 1
              /\ disk'.state = "complete"
              /\ disk'.table.names =
                     <<"image_name", "pred_class", "confidence",
                       "bbox_x1", "bbox_y1", "bbox_x2", "bbox_y2">> \o enabled
              /\ disk'.table.types =
                     <<"string", "string", "float32", "float32", "float32", "float32",
                       "float32">> \o [i \in 1..Len(enabled) |-> "float32"]
              /\ num_rows(disk'.table) = 0
              /\ \A c \in 1..num_columns(disk'.table) : disk'.table.columns[c] = <<>>]_vars

\* the file was created by a logger with contrast and blur enabled
CreateWritesDesiredSchemaWitness ==
    /\ last.op = "create" /\ last.outcome = "ok"
    /\ loggers = << <<"contrast", "blur">> >>
    /\ num_columns(StoreTable) = 9 /\ num_rows(StoreTable) = 0

\* the names of t that are not among the first n
AddedNames(t, n) == SubSeq(t.names, n + 1, Len(t.names))

\* C13. Reconcile result: a logger constructed on an existing store leaves a table
\* whose columns are the existing columns, at their positions, followed by the
\* desired columns the store did not have by name, each once.
ReconcileResult ==
    [][(disk.state = "complete" /\ Len(loggers') > Len(loggers)) =>
          LET old == disk.table
              new == disk'.table
              desired == MandatoryNames \cup SeqToSet(loggers'[Len(loggers')])
              added == AddedNames(new, Len(old.names))
          IN  /\ last'.op = "evolve"
              /\ disk'.state = "complete"
              /\ Len(new.names) >= Len(old.names)
              /\ SubSeq(new.names, 1, Len(old.names)) = old.names
              /\ SeqToSet(added) = desired \ ColumnSet(old)
              /\ Len(added) = Cardinality(desired \ ColumnSet(old))
              /\ ColumnSet(new) = ColumnSet(old) \cup desired]_vars

\* a logger with contrast and blur enabled was constructed on a store created
\* without metrics: the store has the seven columns it had, then the two metrics
ReconcileResultWitness ==
    /\ last.op = "evolve" /\ last.writes = 1 /\ last.outcome = "ok"
    /\ loggers = << <<>>, <<"contrast", "blur">> >>
    /\ SubSeq(StoreTable.names, 1, 7) = _MANDATORY_FIELDS
    /\ SeqToSet(AddedNames(StoreTable, 7)) = {"contrast", "blur"}

\* C14. Column typing: in every state of the store the columns image_name and
\* pred_class are declared string and every other column (confidence, the bbox
\* coordinates, every metric column, created with the file or added later) is
\* declared float32.
ColumnTyping ==
    disk.state = "complete" =>
        \A c \in 1..num_columns(StoreTable) :
            StoreTable.types[c] =
                IF StoreTable.names[c] \in {"image_name", "pred_class"}
                THEN "string" ELSE "float32"

\* a store created with two metric columns to which a reconcile added others and
\* an append a row
ColumnTypingWitness ==
    /\ LastLogged
    /\ loggers[1] = <<"contrast", "blur">>
    /\ {"bbox_ratio", "orientation"} \subseteq ColumnSet(StoreTable)
    /\ StoreTable.types[1] = "string" /\ StoreTable.types[3] = "float32"

\* row r of the data frame has, in some numeric column, a value strictly below
\* Q1 - k*IQR or strictly above Q3 + k*IQR of that column (k in halves, the
\* quartiles in quarters, both sides in eighths)
IsOutlierRow(data, k, r) ==
    \E c \in 1..Len(data.names) :
        /\ data.dtypes[c] # "object"
        /\ ~data.columns[c][r].nan
        /\ LET Q1 == quantile(data.columns[c], 1).x4
               Q3 == quantile(data.columns[c], 3).x4
               IQR == Q3 - Q1
           IN  \/ 8 * data.columns[c][r].x < 2 * Q1 - k * IQR
               \/ 8 * data.columns[c][r].x > 2 * Q3 + k * IQR

\* C15. Outlier detection: identify_outliers(k) returns exactly the rows, in their
\* order and with their cells, in which some numeric column's value lies strictly
\* below Q1 - k*IQR or strictly above Q3 + k*IQR of that column; for feature1 =
\* [1, 2, 3, 100] (feature2 the tens) at k = 1.5 it returns the row of 100 alone.
OutliersExact ==
    insights.called =>
        LET data == insights.data
            out == insights.outliers
            k == insights.iqr_multiplier
        IN  /\ SeqToSet(out.index) =
                   {r - 1 : r \in {q \in 1..Len(data.index) : IsOutlierRow(data, k, q)}}
            /\ \A i, j \in 1..Len(out.index) : i < j => out.index[i] < out.index[j]
            /\ out.names = data.names
            /\ \A c \in 1..Len(data.names) :
                  /\ Len(out.columns[c]) = Len(out.index)
                  /\ \A i \in 1..Len(out.index) :
                        out.columns[c][i] = data.columns[c][out.index[i] + 1]
            /\ (/\ data.columns[1] = <<Num(1), Num(2), Num(3), Num(100)>>
                /\ data.columns[2] = Feature2(4, FALSE)
                /\ k = DefaultIqrMultiplier)
               => (out.index = <<3>> /\ out.columns[1] = <<Num(100)>>)

\* identify_outliers() on feature1 = [1, 2, 3, 100] returned the fourth row
OutliersExactWitness ==
    /\ insights.called
    /\ insights.iqr_multiplier = DefaultIqrMultiplier
    /\ insights.data.columns[1] = <<Num(1), Num(2), Num(3), Num(100)>>
    /\ insights.outliers.index = <<3>>
    /\ insights.outliers.columns[1] = <<Num(100)>>

\* C16. Serialization is required for append: while every append has run to
\* completion before the next read the file, the store holds one row per completed
\* append; the store never holds more rows than appends completed, and holds fewer
\* only after two appends overlapped (both read before either wrote).
SerializedAppendsKeepRows ==
    disk.state = "complete" =>
        /\ num_rows(StoreTable) <= threads.completed
        /\ ~threads.overlapped => num_rows(StoreTable) = threads.completed

\* lost update: two appends that both read the empty table have both returned and
\* the store holds one row
SerializedAppendsKeepRowsWitness ==
    /\ threads.overlapped /\ threads.completed = 2
    /\ \A t \in Threads : ~threads.pending[t].busy
    /\ disk.state = "complete" /\ num_rows(StoreTable) = 1

\* the position of the first occurrence of name in the list
FirstIndex(list, name) == CHOOSE i \in 1..Len(list) :
    list[i] = name /\ \A j \in 1..(i - 1) : list[j] # name

\* C17. Order of columns added together: the columns one reconcile adds are
\* appended in the order in which their metrics appear in the enabled-metrics list
\* of the logger constructed.
AddedInEnabledOrder ==
    [][(/\ disk.state = "complete" /\ disk'.state = "complete"
        /\ last'.op = "evolve" /\ Len(loggers') > Len(loggers)
        /\ Len(disk'.table.names) >= Len(disk.table.names) + 2) =>
          LET added == AddedNames(disk'.table, Len(disk.table.names))
              enabled == loggers'[Len(loggers')]
          IN  \A i, j \in 1..Len(added) :
                  i < j => FirstIndex(enabled, added[i]) < FirstIndex(enabled, added[j])]_vars

\* the image is one from which the calculator gets an array
ValidImage(image) ==
    /\ image # None
    /\ ImageMetricsCalculator(image).raised = ""
    /\ ImageMetricsCalculator(image).value # None

\* C18. Metric dispatch covers every image metric: in a row appended by a
\* log_prediction call given a valid image, every enabled metric that requires an
\* image has a non-null value.
ImageMetricsComputed ==
    (LastLogged /\ ValidImage(last.image)) =>
        \A c \in 1..num_columns(StoreTable) :
            (/\ StoreTable.names[c] \in EnabledOf(last.logger)
             /\ requires_image(StoreTable.names[c]))
            => StoreTable.columns[c][num_rows(StoreTable)] # None

\* C19. No computed metric is dropped: the mandatory fields and the enabled metrics
\* of every logger constructed are columns of the store in every later state, and
\* every key of the row a log_prediction call assembled is a column of the row it
\* appended, which holds a value where the metric result is one.
NoMetricDropped ==
    disk.state = "complete" =>
        /\ \A l \in DOMAIN loggers :
              MandatoryNames \cup EnabledOf(l) \subseteq ColumnSet(StoreTable)
        /\ LastLogged =>
              \A k \in DOMAIN last.data :
                  \E c \in 1..num_columns(StoreTable) :
                      /\ StoreTable.names[c] = k
                      /\ (k \in DOMAIN last.metrics.value /\ last.data[k] # None) =>
                            StoreTable.columns[c][num_rows(StoreTable)] # None

\* the first logger, with contrast and blur, appended a row with its contrast
\* after a second logger with other metrics had been constructed on the file
NoMetricDroppedWitness ==
    /\ LastLogged /\ last.logger = 1
    /\ loggers = << <<"contrast", "blur">>, <<"bbox_ratio", "orientation", "orientation">> >>
    /\ DictGet(last.data, "contrast") = PyFloat("52.3")
    /\ \E c \in 1..num_columns(StoreTable) :
          /\ StoreTable.names[c] = "contrast"
          /\ StoreTable.columns[c][num_rows(StoreTable)] = Float32("52.299999237")

\* C20. Distinct column names: in every state of the store the column names are
\* pairwise distinct, whatever enabled-metrics lists the loggers were given.
DistinctColumnNames ==
    disk.state = "complete" =>
        \A i, j \in 1..num_columns(StoreTable) :
            i # j => StoreTable.names[i] # StoreTable.names[j]

====
